---- MODULE Spec2Model ----
(***************************************************************************)
(* Model of search::PreRanker (search/pre_ranker.cpp): the per-query       *)
(* state of the pre-ranking stage and its operations Init, UpdateResults,  *)
(* ClearCaches and Finish, with the stages UpdateResults runs              *)
(* (FilterRelaxedResults, FillMissingFieldsInPreResults, Filter,           *)
(* FilterForViewportSearch, SweepNearbyResults).                           *)
(*                                                                         *)
(* Coordinates are integers (metres on a flat map), a point is <<x, y>>,   *)
(* a FeatureID is <<mwm, index>> and a distance is the squared Euclidean   *)
(* distance, which orders points as the great-circle distance does at      *)
(* this scale.                                                             *)
(***************************************************************************)
EXTENDS Integers, Sequences, FiniteSets, TLC

VARIABLES m_results, m_relaxedResults, m_numSentResults, m_params,
          m_currEmit, m_prevEmit, last

vars == <<m_results, m_relaxedResults, m_numSentResults, m_params,
          m_currEmit, m_prevEmit, last>>

(***************************************************************************)
(* Bounds of the model.                                                    *)
(***************************************************************************)
\* Candidates one query handles in the life-cycle model: sent, collected or buffered.
MaxCandidates == 2
\* Longest candidate collection the filter model starts from.
MaxInput == 4

(***************************************************************************)
(* Small helpers.                                                          *)
(***************************************************************************)
Max(a, b) == IF a >= b THEN a ELSE b

Min(a, b) == IF a <= b THEN a ELSE b

Abs(a) == IF a >= 0 THEN a ELSE 0 - a

Range(s) == {s[i] : i \in 1..Len(s)}

(***************************************************************************)
(* The map data the pre-ranker reads: three partitions (mwms).             *)
(*   mwm 1: loaded, with rank, popularity and centers tables.              *)
(*   mwm 2: loaded, without a rank table, with popularity and centers.     *)
(*   mwm 3: not loaded (its handle is not alive).                          *)
(***************************************************************************)
NoMwm == 0

NoTable == <<>>

NoPoint == <<>>

IsAlive(mwm) == mwm \in {1, 2}

\* RankTable::Load(value->m_cont, SEARCH_RANKS_FILE_TAG): a table, or NoTable for a null pointer.
LoadRanks(mwm) ==
  IF mwm = 1 THEN [i \in {0, 1, 2} |-> IF i = 0 THEN 3 ELSE IF i = 1 THEN 0 ELSE 255]
  ELSE NoTable

\* RankTable::Load(value->m_cont, POPULARITY_RANKS_FILE_TAG).
LoadPopularity(mwm) ==
  IF mwm = 1 THEN [i \in {0, 1, 2} |-> 0]
  ELSE IF mwm = 2 THEN [i \in {0} |-> 2]
  ELSE NoTable

\* LazyCentersTable of a loaded mwm: Get(index, center) finds a point or fails.
LoadCenters(mwm) ==
  IF mwm = 1 THEN [i \in {0, 1, 2} |-> IF i = 0 THEN <<0, 0>> ELSE IF i = 1 THEN <<1, 0>> ELSE <<2, 2>>]
  ELSE IF mwm = 2 THEN [i \in {0, 1, 2} |-> IF i = 0 THEN <<2, 0>> ELSE IF i = 1 THEN <<0, 2>> ELSE <<1, 2>>]
  ELSE NoTable

\* osm::Editor: the features created by the user, with their geometry.
EditorCreated(id) == id = <<3, 1>>

EditorMercator(id) == <<3, 0>>

\* PivotFeatures::GetDistanceToFeatureMeters: the coarse distance estimate.
EstimatedDistance(id) == 25

\* RankTable::Get, DummyRankTable::Get: 0 without a table or beyond its end.
TableGet(table, index) ==
  IF table # NoTable /\ index \in DOMAIN table THEN table[index] ELSE 0

DistanceOnEarth(p, q) == (p[1] - q[1]) * (p[1] - q[1]) + (p[2] - q[2]) * (p[2] - q[2])

\* m2::RectD::IsPointInside, the rectangle being <<minX, minY, maxX, maxY>>.
IsPointInside(rect, p) ==
  /\ rect[1] <= p[1] /\ p[1] <= rect[3]
  /\ rect[2] <= p[2] /\ p[2] <= rect[4]

\* FeatureID::operator<: by partition, then by index.
IdLess(a, b) == a[1] < b[1] \/ (a[1] = b[1] /\ a[2] < b[2])

(***************************************************************************)
(* A candidate (PreRankerResult) as the producers emplace it: the          *)
(* enrichment fields are unset.                                            *)
(***************************************************************************)
NewResult(id, innermost, matched, begin, exact, relaxed) ==
  [id |-> id, innermostTokens |-> innermost, matchedTokens |-> matched,
   innermostBegin |-> begin, exactMatch |-> exact, isRelaxed |-> relaxed,
   rank |-> 0, popularity |-> 0, distanceToPivot |-> 0,
   center |-> <<0, 0>>, centerLoaded |-> FALSE, filled |-> 0]

(***************************************************************************)
(* FillMissingFieldsInPreResults.                                          *)
(***************************************************************************)
\* The locals of the pass before the first candidate: a default MwmId, two
\* DummyRankTables and no centers table.
FillLocals == [mwmId |-> NoMwm, ranks |-> NoTable, popularityRanks |-> NoTable, centers |-> NoTable]

\* The body of "if (id.m_mwmId != mwmId)": ranks and centers are reset, the
\* three tables are loaded when the handle is alive, and a null ranks or
\* popularityRanks becomes a DummyRankTable (NoTable reads as 0 everywhere).
SwitchMwm(st, mwm) ==
  IF mwm = st.mwmId THEN st
  ELSE [mwmId |-> mwm,
        ranks |-> IF IsAlive(mwm) THEN LoadRanks(mwm) ELSE NoTable,
        popularityRanks |-> IF IsAlive(mwm) THEN LoadPopularity(mwm) ELSE st.popularityRanks,
        centers |-> IF IsAlive(mwm) THEN LoadCenters(mwm) ELSE NoTable]

\* The lambda applied to one candidate, with the tables st already switched.
FillResult(r, st, pivot) ==
  LET index == r.id[2]
      ranked == [r EXCEPT !.rank = TableGet(st.ranks, index),
                          !.popularity = TableGet(st.popularityRanks, index),
                          !.filled = 1 + r.filled]
  IN  IF st.centers # NoTable /\ index \in DOMAIN st.centers
      THEN [ranked EXCEPT !.distanceToPivot = DistanceOnEarth(pivot, st.centers[index]),
                          !.center = st.centers[index],
                          !.centerLoaded = TRUE]
      ELSE IF EditorCreated(r.id)
      THEN [ranked EXCEPT !.distanceToPivot = DistanceOnEarth(pivot, EditorMercator(r.id)),
                          !.center = EditorMercator(r.id),
                          !.centerLoaded = TRUE]
      ELSE [ranked EXCEPT !.distanceToPivot = EstimatedDistance(r.id)]

\* ForEachMwmOrder: the positions of results in non-decreasing partition order.
RECURSIVE MwmOrderOf(_, _)
MwmOrderOf(results, left) ==
  IF left = {} THEN <<>>
  ELSE LET i == CHOOSE k \in left : \A j \in left :
                  \/ results[k].id[1] < results[j].id[1]
                  \/ (results[k].id[1] = results[j].id[1] /\ k <= j)
       IN  <<i>> \o MwmOrderOf(results, left \ {i})

ForEachMwmOrder(results) == MwmOrderOf(results, 1..Len(results))

RECURSIVE FillFrom(_, _, _, _, _)
FillFrom(results, order, k, st, pivot) ==
  IF k > Len(order) THEN results
  ELSE LET i == order[k]
           st2 == SwitchMwm(st, results[i].id[1])
       IN  FillFrom([results EXCEPT ![i] = FillResult(results[i], st2, pivot)],
                    order, k + 1, st2, pivot)

\* FillMissingFieldsInPreResults that stops at the first partition boundary.
FillMissingFieldsInFirstMwm(results, params) ==
  LET order == ForEachMwmOrder(results)
      first == SelectSeq(order, LAMBDA i : results[i].id[1] = results[order[1]].id[1])
  IN  FillFrom(results, first, 1, FillLocals, params.m_accuratePivotCenter)

FillMissingFieldsInPreResults(results, params) ==
  FillFrom(results, ForEachMwmOrder(results), 1, FillLocals, params.m_accuratePivotCenter)

(***************************************************************************)
(* The deduplication step of Filter.                                       *)
(***************************************************************************)
\* lessForUnique with the token counts compared in the wrong order.
lessForUniqueMatchedFirst(lhs, rhs) ==
  IF lhs.id # rhs.id THEN IdLess(lhs.id, rhs.id)
  ELSE IF lhs.matchedTokens # rhs.matchedTokens THEN lhs.matchedTokens > rhs.matchedTokens
  ELSE IF lhs.innermostTokens # rhs.innermostTokens THEN lhs.innermostTokens > rhs.innermostTokens
  ELSE lhs.innermostBegin < rhs.innermostBegin

\* The lambda lessForUnique of Filter.
lessForUnique(lhs, rhs) ==
  IF lhs.id # rhs.id THEN IdLess(lhs.id, rhs.id)
  ELSE IF lhs.innermostTokens # rhs.innermostTokens THEN lhs.innermostTokens > rhs.innermostTokens
  ELSE IF lhs.matchedTokens # rhs.matchedTokens THEN lhs.matchedTokens > rhs.matchedTokens
  ELSE lhs.innermostBegin < rhs.innermostBegin

\* The candidates of set S, whose ids are distinct, in ascending FeatureID order.
RECURSIVE SortById(_)
SortById(S) ==
  IF S = {} THEN <<>>
  ELSE LET m == CHOOSE x \in S : \A y \in S : ~IdLess(y.id, x.id)
       IN  <<m>> \o SortById(S \ {m})

\* The candidates that an unstable sort by lessForUnique may put first in the
\* group of id: those no candidate of the group precedes.
FirstOfGroup(results, id) ==
  {g \in Range(results) : g.id = id /\ \A h \in Range(results) : h.id = id => ~lessForUnique(h, g)}

\* base::SortUnique(m_results, lessForUnique, EqualsBy(GetId)): every collection
\* the call may leave, one candidate per id (the first of its group after the
\* sort), in ascending id order.
SortUnique(results) ==
  LET ids == {r.id : r \in Range(results)}
      picks == {T \in SUBSET Range(results) :
                  \A i \in ids : \E g \in FirstOfGroup(results, i) : {t \in T : t.id = i} = {g}}
  IN  {SortById(T) : T \in picks}

(***************************************************************************)
(* SweepNearbyResults and FilterForViewportSearch.                         *)
(***************************************************************************)
\* Priority with a boost of 1 for the previous emission.
PriorityLowBoost(r, prevEmit) ==
  LET exactMatch == IF r.exactMatch THEN 1 ELSE 0
      prevCount == IF r.id \in prevEmit THEN 1 ELSE 0
  IN  (Max(Max(r.rank, prevCount), Max(r.popularity, exactMatch)) + 2) % 256

\* The uint8_t priority SweepNearbyResults gives the sweeper for one result.
Priority(r, prevEmit) ==
  LET exactMatch == IF r.exactMatch THEN 1 ELSE 0
      prevCount == IF r.id \in prevEmit THEN 3 ELSE 0
  IN  (Max(Max(r.rank, prevCount), Max(r.popularity, exactMatch)) + 2) % 256

\* Two points the sweeper treats as overlapping: closer than eps on both axes.
Nearby(p, q, eps) == Abs(p[1] - q[1]) < eps[1] /\ Abs(p[2] - q[2]) < eps[2]

\* The order in which the sweeper visits the added points: by y, then x, then index.
RECURSIVE SweepOrder(_, _)
SweepOrder(results, left) ==
  IF left = {} THEN <<>>
  ELSE LET Key(k) == <<results[k].center[2], results[k].center[1], k>>
           Before(a, b) == \/ a[1] < b[1]
                           \/ (a[1] = b[1] /\ a[2] < b[2])
                           \/ (a[1] = b[1] /\ a[2] = b[2] /\ a[3] <= b[3])
           i == CHOOSE k \in left : \A j \in left : Before(Key(k), Key(j))
       IN  <<i>> \o SweepOrder(results, left \ {i})

\* NearbyPointsSweeper::Sweep: the greedy pass. kept is the sequence of indices
\* kept so far; the next point is dropped when a kept point near it has at least
\* its priority, and otherwise replaces the kept points near it.
RECURSIVE Sweep(_, _, _, _, _, _)
Sweep(results, prio, eps, order, k, kept) ==
  IF k > Len(order) THEN kept
  ELSE LET i == order[k]
           near == {j \in Range(kept) : Nearby(results[i].center, results[j].center, eps)}
           kept2 == IF \E j \in near : prio[j] >= prio[i]
                    THEN kept
                    ELSE Append(SelectSeq(kept, LAMBDA j : j \notin near), i)
       IN  Sweep(results, prio, eps, order, k + 1, kept2)

\* SweepNearbyResults with the priorities computed without prevEmit.
SweepNearbyResultsWithoutPrevEmit(eps, prevEmit, results) ==
  LET prio == [i \in 1..Len(results) |-> Priority(results[i], {})]
      emitted == Sweep(results, prio, eps, SweepOrder(results, 1..Len(results)), 1, <<>>)
  IN  [k \in 1..Len(emitted) |-> results[emitted[k]]]

SweepNearbyResults(eps, prevEmit, results) ==
  LET prio == [i \in 1..Len(results) |-> Priority(results[i], prevEmit)]
      emitted == Sweep(results, prio, eps, SweepOrder(results, 1..Len(results)), 1, <<>>)
  IN  [k \in 1..Len(emitted) |-> results[emitted[k]]]

\* The predicate of EraseIf without the test of m_centerLoaded.
ErasedForViewportWithoutCenterLoaded(result, params) ==
  IF ~IsPointInside(params.m_viewport, result.center) THEN TRUE
  ELSE result.matchedTokens + 1 < params.m_numQueryTokens

\* The predicate of base::EraseIf in FilterForViewportSearch.
ErasedForViewport(result, params) ==
  IF ~result.centerLoaded \/ ~IsPointInside(params.m_viewport, result.center) THEN TRUE
  ELSE result.matchedTokens + 1 < params.m_numQueryTokens

\* FilterForViewportSearch that also erases the candidates whose id is
\* already in m_currEmit.
FilterForViewportSearchSkipEmitted(results, params, prevEmit, currEmit) ==
  LET remaining == SelectSeq(results, LAMBDA r : ~ErasedForViewport(r, params) /\ r.id \notin currEmit)
      swept == SweepNearbyResults(params.m_minDistanceOnMapBetweenResults, prevEmit, remaining)
  IN  [results |-> swept, currEmit |-> currEmit \cup {r.id : r \in Range(swept)}]

\* FilterForViewportSearch: the new m_results and the new m_currEmit.
FilterForViewportSearch(results, params, prevEmit, currEmit) ==
  LET remaining == SelectSeq(results, LAMBDA r : ~ErasedForViewport(r, params))
      swept == SweepNearbyResults(params.m_minDistanceOnMapBetweenResults, prevEmit, remaining)
  IN  [results |-> swept, currEmit |-> currEmit \cup {r.id : r \in Range(swept)}]

(***************************************************************************)
(* The multi-criteria selection of Filter.                                 *)
(***************************************************************************)
kPedestrianRadiusMeters == 2500

\* PreRanker::BatchSize().
BatchSize(params) == params.m_batchSize

\* PreRankerResult::LessDistance.
LessDistance(lhs, rhs) == lhs.distanceToPivot < rhs.distanceToPivot

\* PreRankerResult::LessRankAndPopularity.
LessRankAndPopularity(lhs, rhs) ==
  IF lhs.rank # rhs.rank THEN lhs.rank > rhs.rank
  ELSE lhs.popularity > rhs.popularity

\* PreRankerResult::LessByExactMatch.
LessByExactMatch(lhs, rhs) == lhs.exactMatch /\ ~rhs.exactMatch

\* PreRankerResult::CategoriesComparator with the fields Filter sets from m_params.
CategoriesComparator(params, lhs, rhs) ==
  LET viewport == params.m_viewport
      positionIsInsideViewport ==
        params.m_position # NoPoint /\ IsPointInside(viewport, params.m_position)
      detailedScale ==
        DistanceOnEarth(<<viewport[1], viewport[4]>>, <<viewport[3], viewport[2]>>)
          < (2 * kPedestrianRadiusMeters) * (2 * kPedestrianRadiusMeters)
      lhsInside == IsPointInside(viewport, lhs.center)
      rhsInside == IsPointInside(viewport, rhs.center)
  IN  IF positionIsInsideViewport /\ lhsInside # rhsInside THEN lhsInside
      ELSE IF detailedScale THEN lhs.distanceToPivot < rhs.distanceToPivot
      ELSE lhs.popularity > rhs.popularity

\* What std::sort or std::nth_element may leave in [iBeg, iMiddle): any n
\* candidates that no candidate left outside precedes. The comparator is given
\* as the set of pairs <<u, t>> of S with u less than t.
FirstN(S, n, less) ==
  {T \in SUBSET S : Cardinality(T) = n /\ \A t \in T : \A u \in S \ T : <<u, t>> \notin less}

\* Select inserting [iBeg, iEnd) instead of [iBeg, iMiddle).
SelectWholeRange(results, params) == {SortById(Range(results))}

\* Select without the pass by rank and popularity.
SelectWithoutRankPass(results, params) ==
  LET all == Range(results)
      numResults == Min(Len(results), BatchSize(params))
  IN  {SortById(d \cup e) :
         d \in FirstN(all, numResults, {p \in all \X all : LessDistance(p[1], p[2])}),
         e \in FirstN(all, numResults, {p \in all \X all : LessByExactMatch(p[1], p[2])})}

\* Filter from "sort(..., LessDistance)" on, for more than BatchSize candidates:
\* every collection the selection may leave in m_results.
Select(results, params) ==
  LET all == Range(results)
      numResults == Min(Len(results), BatchSize(params))
      byDistance == FirstN(all, numResults, {p \in all \X all : LessDistance(p[1], p[2])})
  IN  IF ~params.m_categorialRequest
      THEN {SortById(d \cup r \cup e) :
              d \in byDistance,
              r \in FirstN(all, numResults, {p \in all \X all : LessRankAndPopularity(p[1], p[2])}),
              e \in FirstN(all, numResults, {p \in all \X all : LessByExactMatch(p[1], p[2])})}
      ELSE {SortById(d \cup c) :
              d \in byDistance,
              c \in FirstN(all, numResults,
                           {p \in all \X all : CategoriesComparator(params, p[1], p[2])})}

\* Filter up to the size test: the viewport filtering of a viewport search.
BeforeSelect(viewportSearch, unique, params, prevEmit, currEmit) ==
  IF viewportSearch
  THEN FilterForViewportSearch(unique, params, prevEmit, currEmit)
  ELSE [results |-> unique, currEmit |-> currEmit]

\* Filter from "if (m_results.size() <= BatchSize()) return;" on.
SelectIfOver(results, params) ==
  IF Len(results) <= BatchSize(params) THEN {results} ELSE Select(results, params)

\* Filter without the SortUnique call.
FilterWithoutSortUnique(viewportSearch, results, params, prevEmit, currEmit) ==
  LET vp == BeforeSelect(viewportSearch, results, params, prevEmit, currEmit)
  IN  {[results |-> out, currEmit |-> vp.currEmit, unique |-> results, selInput |-> vp.results] :
         out \in SelectIfOver(vp.results, params)}

\* PreRanker::Filter(viewportSearch): every outcome of the call, as the new
\* m_results and m_currEmit, with the collection after SortUnique (unique) and
\* the one that reaches the size test (selInput).
Filter(viewportSearch, results, params, prevEmit, currEmit) ==
  UNION {LET vp == BeforeSelect(viewportSearch, u, params, prevEmit, currEmit)
         IN  {[results |-> out, currEmit |-> vp.currEmit, unique |-> u, selInput |-> vp.results] :
                out \in SelectIfOver(vp.results, params)} :
         u \in SortUnique(results)}

(***************************************************************************)
(* FilterRelaxedResults.                                                   *)
(***************************************************************************)
IsNotRelaxed(res) == ~res.isRelaxed

\* The non-final branch without "m_results.erase(it, iEnd)": the relaxed
\* candidates are copied to the buffer and stay in the collection.
FilterRelaxedResultsWithoutErase(lastUpdate, results, relaxedResults) ==
  IF lastUpdate
  THEN [results |-> results \o relaxedResults, relaxedResults |-> <<>>]
  ELSE [results |-> results,
        relaxedResults |-> relaxedResults \o SelectSeq(results, LAMBDA r : ~IsNotRelaxed(r))]

\* FilterRelaxedResults with the test of lastUpdate inverted.
FilterRelaxedResultsInverted(lastUpdate, results, relaxedResults) ==
  IF ~lastUpdate
  THEN [results |-> results \o relaxedResults, relaxedResults |-> <<>>]
  ELSE [results |-> SelectSeq(results, IsNotRelaxed),
        relaxedResults |-> relaxedResults \o SelectSeq(results, LAMBDA r : ~IsNotRelaxed(r))]

\* FilterRelaxedResults without "m_relaxedResults.clear()".
FilterRelaxedResultsWithoutClear(lastUpdate, results, relaxedResults) ==
  IF lastUpdate
  THEN [results |-> results \o relaxedResults, relaxedResults |-> relaxedResults]
  ELSE [results |-> SelectSeq(results, IsNotRelaxed),
        relaxedResults |-> relaxedResults \o SelectSeq(results, LAMBDA r : ~IsNotRelaxed(r))]

\* The new m_results and m_relaxedResults. The order std::partition leaves
\* inside each part is not observable: SortUnique sorts m_results afterwards.
FilterRelaxedResults(lastUpdate, results, relaxedResults) ==
  IF lastUpdate
  THEN [results |-> results \o relaxedResults, relaxedResults |-> <<>>]
  ELSE [results |-> SelectSeq(results, IsNotRelaxed),
        relaxedResults |-> relaxedResults \o SelectSeq(results, LAMBDA r : ~IsNotRelaxed(r))]

(***************************************************************************)
(* The operations of PreRanker. The variable last records the operation    *)
(* that produced the state: its name and argument, the state it started    *)
(* from (pre), the calls it made to the Ranker, and for UpdateResults the  *)
(* candidate collection after each stage. It also records what the Ranker  *)
(* has received since the last Init (sent).                                *)
(***************************************************************************)
State ==
  [m_results |-> m_results, m_relaxedResults |-> m_relaxedResults,
   m_numSentResults |-> m_numSentResults, m_params |-> m_params,
   m_currEmit |-> m_currEmit, m_prevEmit |-> m_prevEmit]

\* What the Ranker has received through AddPreRankerResults since the last
\* Init, after an operation that made the given calls: the ids of the
\* candidates and the number of candidates.
RECURSIVE Received(_, _)
Received(sent, calls) ==
  IF calls = <<>> THEN sent
  ELSE LET c == Head(calls)
           now == IF c.call = "AddPreRankerResults"
                  THEN [ids |-> sent.ids \cup {r.id : r \in Range(c.arg)},
                        size |-> sent.size + Len(c.arg)]
                  ELSE sent
       IN  Received(now, Tail(calls))

NothingSent == [ids |-> {}, size |-> 0]

Record(op, arg, calls, stages) ==
  [op |-> op, arg |-> arg, pre |-> State, calls |-> calls, stages |-> stages,
   sent |-> IF op \in {"PreRanker", "Init"} THEN NothingSent ELSE Received(last.sent, calls)]

NoStages == [considered |-> <<>>, filled |-> <<>>, unique |-> <<>>, selInput |-> <<>>,
             batch |-> <<>>, currEmit |-> {}]

\* Params of a PreRanker that has not been initialised.
DefaultBatchSize == 100

DefaultParams ==
  [m_viewportSearch |-> FALSE, m_categorialRequest |-> FALSE,
   m_batchSize |-> DefaultBatchSize, m_numQueryTokens |-> 0,
   m_viewport |-> <<0, 0, 0, 0>>, m_minDistanceOnMapBetweenResults |-> <<0, 0>>,
   m_accuratePivotCenter |-> <<0, 0>>, m_position |-> NoPoint]

\* PreRanker::PreRanker: the state after construction.
PreRanker ==
  /\ m_results = <<>>
  /\ m_relaxedResults = <<>>
  /\ m_numSentResults = 0
  /\ m_params = DefaultParams
  /\ m_currEmit = {}
  /\ m_prevEmit = {}
  /\ last = Record("PreRanker", <<>>, <<>>, NoStages)

\* Init without "m_currEmit.clear()".
InitWithoutCurrEmitClear(params) ==
  /\ m_numSentResults' = 0
  /\ m_results' = <<>>
  /\ m_relaxedResults' = <<>>
  /\ m_params' = params
  /\ last' = Record("Init", params, <<>>, NoStages)
  /\ UNCHANGED <<m_currEmit, m_prevEmit>>

\* PreRanker::Init(params).
Init(params) ==
  /\ m_numSentResults' = 0
  /\ m_results' = <<>>
  /\ m_relaxedResults' = <<>>
  /\ m_params' = params
  /\ m_currEmit' = {}
  /\ last' = Record("Init", params, <<>>, NoStages)
  /\ UNCHANGED m_prevEmit

\* PreRanker::Finish(cancelled).
Finish(cancelled) ==
  /\ last' = Record("Finish", cancelled, <<[call |-> "Finish", arg |-> cancelled]>>, NoStages)
  /\ UNCHANGED <<m_results, m_relaxedResults, m_numSentResults, m_params, m_currEmit, m_prevEmit>>

\* PreRanker::Emplace: a candidate producer appends a match to m_results.
Emplace(result) ==
  /\ m_results' = Append(m_results, result)
  /\ last' = Record("Emplace", result, <<>>, NoStages)
  /\ UNCHANGED <<m_relaxedResults, m_numSentResults, m_params, m_currEmit, m_prevEmit>>

\* The end of UpdateResults without the test of lastUpdate.
SwapEmitOnEveryCycle(lastUpdate, currEmit, prevEmit) ==
  IF currEmit # {}
  THEN [currEmit |-> prevEmit, prevEmit |-> currEmit]
  ELSE [currEmit |-> currEmit, prevEmit |-> prevEmit]

\* The end of UpdateResults without the test of m_currEmit.empty().
SwapEmitAlways(lastUpdate, currEmit, prevEmit) ==
  IF lastUpdate
  THEN [currEmit |-> prevEmit, prevEmit |-> currEmit]
  ELSE [currEmit |-> currEmit, prevEmit |-> prevEmit]

\* The end of UpdateResults, "if (lastUpdate && !m_currEmit.empty())
\* m_currEmit.swap(m_prevEmit)": the new m_currEmit and m_prevEmit.
SwapEmit(lastUpdate, currEmit, prevEmit) ==
  IF lastUpdate /\ currEmit # {}
  THEN [currEmit |-> prevEmit, prevEmit |-> currEmit]
  ELSE [currEmit |-> currEmit, prevEmit |-> prevEmit]

\* Lines 254-256 with "m_results.clear()" left out: the collection keeps the batch.
ForwardWithoutClear(results, lastUpdate) ==
  [calls |-> <<[call |-> "AddPreRankerResults", arg |-> results],
               [call |-> "UpdateResults", arg |-> lastUpdate]>>,
   results |-> results]

\* "m_ranker.AddPreRankerResults(move(m_results)); m_results.clear();
\* m_ranker.UpdateResults(lastUpdate)": the calls made to the Ranker and the
\* collection left behind.
Forward(results, lastUpdate) ==
  [calls |-> <<[call |-> "AddPreRankerResults", arg |-> results],
               [call |-> "UpdateResults", arg |-> lastUpdate]>>,
   results |-> <<>>]

\* PreRanker::UpdateResults(lastUpdate).
UpdateResults(lastUpdate) ==
  LET split == FilterRelaxedResults(lastUpdate, m_results, m_relaxedResults)
      filled == FillMissingFieldsInPreResults(split.results, m_params)
  IN  \E f \in Filter(m_params.m_viewportSearch, filled, m_params, m_prevEmit, m_currEmit) :
        LET emit == SwapEmit(lastUpdate, f.currEmit, m_prevEmit)
            sent == Forward(f.results, lastUpdate)
        IN  /\ m_numSentResults' = m_numSentResults + Len(f.results)
            /\ m_results' = sent.results
            /\ m_relaxedResults' = split.relaxedResults
            /\ m_currEmit' = emit.currEmit
            /\ m_prevEmit' = emit.prevEmit
            /\ last' = Record("UpdateResults", lastUpdate, sent.calls,
                              [considered |-> split.results, filled |-> filled,
                               unique |-> f.unique,
                               selInput |-> f.selInput, batch |-> f.results,
                               currEmit |-> f.currEmit])
            /\ UNCHANGED m_params

\* ClearCaches without "m_currEmit.clear()".
ClearCachesWithoutCurrEmitClear ==
  /\ m_prevEmit' = {}
  /\ last' = Record("ClearCaches", <<>>, <<>>, NoStages)
  /\ UNCHANGED <<m_results, m_relaxedResults, m_numSentResults, m_params, m_currEmit>>

\* PreRanker::ClearCaches().
ClearCaches ==
  /\ m_prevEmit' = {}
  /\ m_currEmit' = {}
  /\ last' = Record("ClearCaches", <<>>, <<>>, NoStages)
  /\ UNCHANGED <<m_results, m_relaxedResults, m_numSentResults, m_params>>

(***************************************************************************)
(* The inputs of the model: candidates the producers emplace and params    *)
(* the queries are initialised with.                                       *)
(***************************************************************************)
IdA == <<1, 0>>

IdB == <<1, 1>>

IdC == <<2, 0>>

IdD == <<3, 0>>

IdE == <<3, 1>>

IdF == <<1, 2>>

IdG == <<2, 1>>

IdH == <<2, 2>>

SmallViewport == <<0, 0, 2, 3>>

BigViewport == <<0 - 4000, 0 - 4000, 4000, 4000>>

QueryParams(viewportSearch, categorial, batchSize, viewport, position) ==
  [m_viewportSearch |-> viewportSearch, m_categorialRequest |-> categorial,
   m_batchSize |-> batchSize, m_numQueryTokens |-> 3,
   m_viewport |-> viewport, m_minDistanceOnMapBetweenResults |-> <<2, 2>>,
   m_accuratePivotCenter |-> <<2, 0>>, m_position |-> position]

\* Life-cycle model: text queries with a batch of 1 or 2 and categorial queries.
LifeParams ==
  {QueryParams(v, FALSE, b, SmallViewport, NoPoint) : v \in BOOLEAN, b \in {1, 2}}
  \cup {QueryParams(v, TRUE, 1, SmallViewport, NoPoint) : v \in BOOLEAN}

LifeResults ==
  {NewResult(IdA, 1, 2, 0, FALSE, FALSE), NewResult(IdA, 2, 2, 0, FALSE, TRUE),
   NewResult(IdB, 1, 2, 0, FALSE, FALSE),
   NewResult(IdC, 1, 2, 0, FALSE, FALSE), NewResult(IdC, 1, 2, 0, FALSE, TRUE)}

\* Filter model: text and categorial queries.
FilterParams ==
  {QueryParams(v, FALSE, b, SmallViewport, NoPoint) : v \in BOOLEAN, b \in {1, 2}}
  \cup {QueryParams(v, TRUE, 1, SmallViewport, p) : v \in BOOLEAN, p \in {NoPoint, <<1, 0>>}}
  \cup {QueryParams(v, TRUE, 1, BigViewport, NoPoint) : v \in BOOLEAN}

FilterResults ==
  {NewResult(IdA, 1, 2, 0, FALSE, FALSE), NewResult(IdA, 1, 2, 1, FALSE, FALSE),
   NewResult(IdA, 1, 3, 0, FALSE, FALSE), NewResult(IdA, 2, 2, 0, FALSE, FALSE),
   NewResult(IdB, 1, 2, 0, FALSE, FALSE), NewResult(IdB, 1, 2, 0, TRUE, FALSE),
   NewResult(IdB, 1, 1, 0, FALSE, FALSE),
   NewResult(IdC, 1, 2, 0, FALSE, FALSE), NewResult(IdD, 1, 2, 0, FALSE, FALSE),
   NewResult(IdE, 1, 2, 0, FALSE, FALSE)}

\* Sweep model: text queries over features spread over the viewport, one of
\* them (IdF) of the highest rank.
SweepParams == {QueryParams(v, FALSE, b, SmallViewport, NoPoint) : v \in BOOLEAN, b \in {1, 2}}

SweepResults ==
  {NewResult(IdA, 1, 2, 0, FALSE, FALSE), NewResult(IdB, 1, 2, 0, FALSE, FALSE),
   NewResult(IdC, 1, 2, 0, FALSE, FALSE), NewResult(IdF, 1, 2, 0, FALSE, FALSE),
   NewResult(IdG, 1, 2, 0, FALSE, FALSE), NewResult(IdH, 1, 2, 0, FALSE, FALSE)}

\* The candidates of set S as a collection, in the order the producers found them.
RECURSIVE Collected(_)
Collected(S) ==
  IF S = {} THEN <<>>
  ELSE LET m == CHOOSE x \in S : \A y \in S : lessForUnique(x, y) \/ x = y \/ ~lessForUnique(y, x)
       IN  Collected(S \ {m}) \o <<m>>

(***************************************************************************)
(* Life-cycle model: any sequence of operations on one PreRanker.          *)
(***************************************************************************)
Next ==
  \/ \E params \in LifeParams : Init(params)
  \/ \E result \in LifeResults :
       /\ m_numSentResults + Len(m_results) + Len(m_relaxedResults) < MaxCandidates
       /\ Emplace(result)
  \/ \E lastUpdate \in BOOLEAN : UpdateResults(lastUpdate)
  \/ ClearCaches
  \/ \E cancelled \in BOOLEAN : Finish(cancelled)

Spec == PreRanker /\ [][Next]_vars

(***************************************************************************)
(* Filter model: one query, initialised and filled by the producers, on    *)
(* which UpdateResults runs.                                               *)
(***************************************************************************)
FilterInit ==
  /\ m_params \in FilterParams
  /\ m_results \in {Collected(S) : S \in {T \in SUBSET FilterResults : Cardinality(T) <= MaxInput}}
  /\ m_relaxedResults = <<>>
  /\ m_numSentResults = 0
  /\ m_currEmit = {}
  /\ m_prevEmit \in IF m_params.m_viewportSearch THEN SUBSET {IdA, IdB, IdC} ELSE {{}}
  /\ last = Record("Init", m_params, <<>>, NoStages)

FilterNext == \E lastUpdate \in BOOLEAN : UpdateResults(lastUpdate)

FilterSpec == FilterInit /\ [][FilterNext]_vars

(***************************************************************************)
(* Sweep model: one query, initialised and filled by the producers, on     *)
(* which UpdateResults runs.                                               *)
(***************************************************************************)
SweepInit ==
  /\ m_params \in SweepParams
  /\ m_results \in {Collected(S) : S \in {T \in SUBSET SweepResults : Cardinality(T) <= MaxInput}}
  /\ m_relaxedResults = <<>>
  /\ m_numSentResults = 0
  /\ m_currEmit = {}
  /\ m_prevEmit \in IF m_params.m_viewportSearch THEN SUBSET {IdA, IdF, IdH} ELSE {{}}
  /\ last = Record("Init", m_params, <<>>, NoStages)

SweepNext == \E lastUpdate \in BOOLEAN : UpdateResults(lastUpdate)

SweepSpec == SweepInit /\ [][SweepNext]_vars

(***************************************************************************)
(* Properties.                                                             *)
(***************************************************************************)
Updated == last.op = "UpdateResults"

Count(x, seq) == Cardinality({k \in 1..Len(seq) : seq[k] = x})

\* What the producers set on a candidate: its id and its match information.
Match(r) == <<r.id, r.innermostTokens, r.matchedTokens, r.innermostBegin, r.exactMatch, r.isRelaxed>>

\* c is a better match than u: more innermost tokens, then more matched
\* tokens, then an earlier start of the innermost token range.
BetterMatch(c, u) ==
  \/ c.innermostTokens > u.innermostTokens
  \/ c.innermostTokens = u.innermostTokens /\ c.matchedTokens > u.matchedTokens
  \/ c.innermostTokens = u.innermostTokens /\ c.matchedTokens = u.matchedTokens
       /\ c.innermostBegin < u.innermostBegin

\* C1: the batch one UpdateResults call passes to Ranker.AddPreRankerResults
\* never contains two candidates with the same FeatureId.
C1_BatchIdsDistinct ==
  Updated =>
    \A i, j \in 1..Len(last.stages.batch) :
      last.stages.batch[i].id = last.stages.batch[j].id => i = j

\* Two candidates of the same id were considered, more candidates than
\* BatchSize reached the selection, and the id is in the batch.
C1_Witness ==
  /\ Updated
  /\ Len(last.stages.selInput) > BatchSize(last.pre.m_params)
  /\ \E i, j \in 1..Len(last.stages.considered) :
       /\ i # j
       /\ last.stages.considered[i].id = last.stages.considered[j].id
       /\ \E b \in Range(last.stages.batch) : b.id = last.stages.considered[i].id

\* C2: of the candidates sharing a FeatureId exactly one is left by the
\* deduplication, it is one of them, and none of them is a better match
\* (innermost tokens, then matched tokens, then start of the innermost range).
C2_BestOfIdSurvives ==
  Updated =>
    \A c \in Range(last.stages.considered) :
      /\ Cardinality({k \in 1..Len(last.stages.unique) : last.stages.unique[k].id = c.id}) = 1
      /\ \A u \in Range(last.stages.unique) :
           u.id = c.id =>
             /\ \E d \in Range(last.stages.considered) : Match(d) = Match(u)
             /\ ~BetterMatch(c, u)

\* Three matches of one id were considered, one with more matched tokens but
\* fewer innermost tokens than the survivor.
C2_Witness ==
  /\ Updated
  /\ \E u \in Range(last.stages.unique) :
       /\ Cardinality({Match(c) : c \in {d \in Range(last.stages.considered) : d.id = u.id}}) >= 3
       /\ \E c \in Range(last.stages.considered) :
            c.id = u.id /\ c.matchedTokens > u.matchedTokens /\ c.innermostTokens < u.innermostTokens

\* C3: with n candidates reaching the selection, the batch has at least
\* min(BatchSize, n) and at most min(3 * BatchSize, n) candidates, and all n
\* of them when n <= BatchSize.
C3_BatchSizeBounds ==
  Updated =>
    LET n == Len(last.stages.selInput)
        size == BatchSize(last.pre.m_params)
    IN  /\ Len(last.stages.batch) >= Min(size, n)
        /\ Len(last.stages.batch) <= Min(3 * size, n)
        /\ n <= size => last.stages.batch = last.stages.selInput

\* More than 3 * BatchSize candidates reached the selection and 3 * BatchSize
\* of them are in the batch.
C3_Witness ==
  /\ Updated
  /\ Len(last.stages.selInput) > 3 * BatchSize(last.pre.m_params)
  /\ Len(last.stages.batch) = 3 * BatchSize(last.pre.m_params)

C5_RelaxedHeldBack ==
  (Updated /\ last.arg = FALSE) =>
    /\ \A b \in Range(last.stages.batch) : ~b.isRelaxed
    /\ \A c \in Range(last.pre.m_results) : c.isRelaxed => c \in Range(m_relaxedResults)

\* A non-final update ran on a collection with a relaxed and a non-relaxed
\* candidate and forwarded a non-empty batch.
C5_Witness ==
  /\ Updated /\ last.arg = FALSE
  /\ \E c \in Range(last.pre.m_results) : c.isRelaxed
  /\ last.stages.batch # <<>>

\* C6: UpdateResults(lastUpdate = true) appends every buffered relaxed
\* candidate exactly once to the collection that dedup and selection work on
\* and leaves the buffer empty; until then no buffered candidate is lost: a
\* non-final update only adds the relaxed candidates of the collection to the
\* buffer, and Emplace, Finish and ClearCaches leave the buffer alone.
C6_RelaxedReleasedOnLast ==
  /\ (Updated /\ last.arg = TRUE) =>
       /\ m_relaxedResults = <<>>
       /\ \A c \in Range(last.pre.m_results) \cup Range(last.pre.m_relaxedResults) :
            Count(c, last.stages.considered)
              = Count(c, last.pre.m_results) + Count(c, last.pre.m_relaxedResults)
       /\ Len(last.stages.considered) = Len(last.pre.m_results) + Len(last.pre.m_relaxedResults)
  /\ (Updated /\ last.arg = FALSE) =>
       \A c \in Range(last.pre.m_results) \cup Range(last.pre.m_relaxedResults) :
         Count(c, m_relaxedResults)
           = Count(c, last.pre.m_relaxedResults)
             + (IF c.isRelaxed THEN Count(c, last.pre.m_results) ELSE 0)
  /\ last.op \in {"Emplace", "Finish", "ClearCaches"} =>
       m_relaxedResults = last.pre.m_relaxedResults

\* A final update ran with a candidate in the relaxed buffer and another in
\* the collection.
C6_Witness ==
  /\ Updated /\ last.arg = TRUE
  /\ last.pre.m_relaxedResults # <<>>
  /\ last.pre.m_results # <<>>
  /\ Len(last.stages.considered) = 2

\* C7 as stated: of two candidates of a viewport query closer than eps on both
\* axes at most one is left by FilterForViewportSearch, and when their
\* priorities differ the one with the lower priority is not left.
SweepInput == SelectSeq(last.stages.unique, LAMBDA r : ~ErasedForViewport(r, last.pre.m_params))

PriorityOf(r) == Priority(r, last.pre.m_prevEmit)

NearbyInQuery(x, y) ==
  Nearby(x.center, y.center, last.pre.m_params.m_minDistanceOnMapBetweenResults)

C7_LowerPriorityNeverSurvives ==
  (Updated /\ last.pre.m_params.m_viewportSearch) =>
    \A x, y \in Range(SweepInput) :
      (x # y /\ NearbyInQuery(x, y)) =>
        /\ ~(x \in Range(last.stages.selInput) /\ y \in Range(last.stages.selInput))
        /\ PriorityOf(x) > PriorityOf(y) => y \notin Range(last.stages.selInput)

\* C7 as amended: at most one of the two is left, and the one with the lower
\* priority is left only when a third candidate closer than eps to the other
\* one has at least that one's priority.
C7_AtMostOneOfNearbyPair ==
  (Updated /\ last.pre.m_params.m_viewportSearch) =>
    \A x, y \in Range(SweepInput) :
      (x # y /\ NearbyInQuery(x, y)) =>
        /\ ~(x \in Range(last.stages.selInput) /\ y \in Range(last.stages.selInput))
        /\ (PriorityOf(x) > PriorityOf(y) /\ y \in Range(last.stages.selInput)) =>
             \E z \in Range(SweepInput) \ {x, y} :
               NearbyInQuery(z, x) /\ PriorityOf(z) >= PriorityOf(x)

\* Two candidates closer than eps with different priorities were swept and
\* the one with the higher priority is left.
C7_Witness ==
  /\ Updated /\ last.pre.m_params.m_viewportSearch
  /\ \E x, y \in Range(SweepInput) :
       /\ x # y /\ NearbyInQuery(x, y)
       /\ PriorityOf(x) > PriorityOf(y)
       /\ x \in Range(last.stages.selInput)
       /\ y \notin Range(last.stages.selInput)

\* C8 as stated: of two candidates closer than eps with equal priority, one
\* of them in the previous-emission set, the other one is not left.
C8_TieGoesToPrevEmit ==
  (Updated /\ last.pre.m_params.m_viewportSearch) =>
    \A x, y \in Range(SweepInput) :
      (/\ x # y /\ NearbyInQuery(x, y)
       /\ PriorityOf(x) = PriorityOf(y)
       /\ x.id \in last.pre.m_prevEmit /\ y.id \notin last.pre.m_prevEmit) =>
        y \notin Range(last.stages.selInput)

\* C8 as amended: of two candidates closer than eps, one in the
\* previous-emission set with rank and popularity below 254 (so that its
\* 8-bit priority does not wrap) and the other not and with rank, popularity
\* and exact match below 3, the first has the higher priority, and the other
\* is left only when a third candidate closer than eps to the first has at
\* least the first's priority.
C8_PrevEmitBoost ==
  (Updated /\ last.pre.m_params.m_viewportSearch) =>
    \A x, y \in Range(SweepInput) :
      (/\ x # y /\ NearbyInQuery(x, y)
       /\ x.id \in last.pre.m_prevEmit /\ y.id \notin last.pre.m_prevEmit
       /\ x.rank < 254 /\ x.popularity < 254
       /\ y.rank < 3 /\ y.popularity < 3) =>
        /\ PriorityOf(x) > PriorityOf(y)
        /\ y \in Range(last.stages.selInput) =>
             \E z \in Range(SweepInput) \ {x, y} :
               NearbyInQuery(z, x) /\ PriorityOf(z) >= PriorityOf(x)

\* A previously emitted candidate of rank and popularity 0 is left and a
\* nearby new candidate of higher popularity is not.
C8_Witness ==
  /\ Updated /\ last.pre.m_params.m_viewportSearch
  /\ \E x, y \in Range(SweepInput) :
       /\ x # y /\ NearbyInQuery(x, y)
       /\ x.id \in last.pre.m_prevEmit /\ y.id \notin last.pre.m_prevEmit
       /\ x.rank = 0 /\ x.popularity = 0 /\ y.popularity = 2
       /\ x \in Range(last.stages.selInput)
       /\ y \notin Range(last.stages.selInput)

\* C9 as stated: after UpdateResults(lastUpdate = true) the previous-emission
\* set is the current-emission set as the filtering of that cycle left it.
C9_PrevEmitIsCurrEmit ==
  (Updated /\ last.arg = TRUE) => m_prevEmit = last.stages.currEmit

\* C9 as amended: it is that set when that set is not empty, and it is
\* unchanged when that set is empty.
C9_PrevEmitIsNonEmptyCurrEmit ==
  (Updated /\ last.arg = TRUE) =>
    m_prevEmit = IF last.stages.currEmit # {} THEN last.stages.currEmit ELSE last.pre.m_prevEmit

\* A final update replaced a non-empty previous-emission set by another set.
C9_Witness ==
  /\ Updated /\ last.arg = TRUE
  /\ last.stages.currEmit # {}
  /\ last.pre.m_prevEmit # {}
  /\ last.pre.m_prevEmit # last.stages.currEmit
  /\ m_prevEmit = last.stages.currEmit

\* C10: after Init(params) the candidate collection, the relaxed buffer and
\* the current-emission set are empty, the sent-result counter is 0, the
\* stored params are the argument and the previous-emission set is unchanged.
C10_InitResetsQueryState ==
  last.op = "Init" =>
    /\ m_results = <<>>
    /\ m_relaxedResults = <<>>
    /\ m_currEmit = {}
    /\ m_numSentResults = 0
    /\ m_params = last.arg
    /\ m_prevEmit = last.pre.m_prevEmit

\* Init ran on a query with sent and buffered candidates, a current and a
\* previous emission and other params.
C10_Witness ==
  /\ last.op = "Init"
  /\ last.pre.m_relaxedResults # <<>>
  /\ last.pre.m_numSentResults > 0
  /\ last.pre.m_currEmit # {}
  /\ last.pre.m_prevEmit # {}
  /\ last.pre.m_params # m_params

(***************************************************************************)
(* C11: after ClearCaches, from any state, the previous-emission set and   *)
(* the current-emission set are both empty, and the candidate collection,  *)
(* the relaxed buffer, the sent-result counter and the stored params are   *)
(* what they were before the call.                                         *)
(***************************************************************************)
C11_ClearCachesFrame ==
  last.op = "ClearCaches" =>
    /\ m_prevEmit = {}
    /\ m_currEmit = {}
    /\ m_results = last.pre.m_results
    /\ m_relaxedResults = last.pre.m_relaxedResults
    /\ m_numSentResults = last.pre.m_numSentResults
    /\ m_params = last.pre.m_params

\* ClearCaches ran in the middle of a query that had both emission sets
\* non-empty, a candidate collected, one buffered and one already sent.
C11_Witness ==
  /\ last.op = "ClearCaches"
  /\ last.pre.m_prevEmit # {}
  /\ last.pre.m_currEmit # {}
  /\ m_results # <<>>
  /\ m_numSentResults > 0

(***************************************************************************)
(* C12: each UpdateResults(f) makes exactly two calls to the Ranker, one   *)
(* AddPreRankerResults(batch) followed by one UpdateResults(f) with the    *)
(* same flag f, and leaves the local candidate collection empty.           *)
(***************************************************************************)
C12_OneBatchThenUpdate ==
  Updated =>
    /\ Len(last.calls) = 2
    /\ last.calls[1] = [call |-> "AddPreRankerResults", arg |-> last.stages.batch]
    /\ last.calls[2] = [call |-> "UpdateResults", arg |-> last.arg]
    /\ m_results = <<>>

\* An UpdateResults that forwarded a non-empty batch.
C12_Witness ==
  /\ Updated
  /\ last.pre.m_results # <<>>
  /\ last.calls[1].arg # <<>>
  /\ m_results = <<>>

(***************************************************************************)
(* C13: FillMissingFieldsInPreResults writes rank 0 and popularity 0 to    *)
(* every candidate whose partition is unavailable, rank 0 to every         *)
(* candidate whose partition has no rank table and popularity 0 to every   *)
(* candidate whose partition has no popularity table, whichever partitions *)
(* the pass processed before it.                                           *)
(***************************************************************************)
C13_UnavailableReadsZero ==
  Updated =>
    \A r \in Range(last.stages.filled) :
      LET mwm == r.id[1]
      IN  /\ ~IsAlive(mwm) => r.rank = 0 /\ r.popularity = 0
          /\ IsAlive(mwm) /\ LoadRanks(mwm) = NoTable => r.rank = 0
          /\ IsAlive(mwm) /\ LoadPopularity(mwm) = NoTable => r.popularity = 0

(***************************************************************************)
(* C14: applying Filter a second time to the output of Filter, when that   *)
(* output has at most BatchSize candidates, leaves the same candidates in  *)
(* the same order and leaves the current-emission set unchanged.           *)
(***************************************************************************)
\* The outcomes of a second Filter on the batch of the last UpdateResults,
\* with the emission sets as the first Filter left them.
Refiltered ==
  Filter(last.pre.m_params.m_viewportSearch, last.stages.batch, last.pre.m_params,
         last.pre.m_prevEmit, last.stages.currEmit)

UnderBudget == Updated /\ Len(last.stages.batch) <= BatchSize(last.pre.m_params)

C14_RefilterIsNoOp ==
  UnderBudget =>
    \A g \in Refiltered :
      /\ g.results = last.stages.batch
      /\ g.currEmit = last.stages.currEmit

(***************************************************************************)
(* C14, amended: the second Filter leaves the same candidates and the same *)
(* current-emission set; their order is the same too unless the query is a *)
(* viewport query whose first Filter cut the sweep's survivors down by the  *)
(* selection (the batch is then in id order, and the second sweep emits it  *)
(* in sweep order).                                                        *)
(***************************************************************************)
C14_RefilterKeepsCandidates ==
  UnderBudget =>
    \A g \in Refiltered :
      /\ Range(g.results) = Range(last.stages.batch)
      /\ Len(g.results) = Len(last.stages.batch)
      /\ g.currEmit = last.stages.currEmit
      /\ (\/ ~last.pre.m_params.m_viewportSearch
          \/ Len(last.stages.selInput) <= BatchSize(last.pre.m_params))
           => g.results = last.stages.batch

\* A viewport query whose sweep dropped a candidate and whose selection cut
\* three survivors down to a batch of two, within the budget.
C14_Witness ==
  /\ UnderBudget
  /\ last.pre.m_params.m_viewportSearch
  /\ Len(last.stages.selInput) > BatchSize(last.pre.m_params)
  /\ Len(last.stages.selInput) < Len(last.stages.unique)
  /\ Len(last.stages.batch) = 2

(***************************************************************************)
(* C15: every candidate is processed by FillMissingFieldsInPreResults      *)
(* exactly once, before Filter sorts or selects on it: the candidates      *)
(* waiting in the collection or in the relaxed buffer have not been        *)
(* processed; a cycle processes, once, the candidates it considers, which  *)
(* are the non-relaxed arrivals on a non-final cycle and all arrivals plus *)
(* the whole buffer on a final cycle; Filter works on processed candidates *)
(* only.                                                                   *)
(***************************************************************************)
C15_FilledOnceBeforeFilter ==
  /\ \A r \in Range(m_results) \cup Range(m_relaxedResults) : r.filled = 0
  /\ Updated =>
       LET st == last.stages
       IN  /\ st.considered = IF last.arg THEN last.pre.m_results \o last.pre.m_relaxedResults
                                          ELSE SelectSeq(last.pre.m_results, IsNotRelaxed)
           /\ ~last.arg => m_relaxedResults =
                             last.pre.m_relaxedResults
                               \o SelectSeq(last.pre.m_results, LAMBDA r : r.isRelaxed)
           /\ Len(st.filled) = Len(st.considered)
           /\ \A k \in 1..Len(st.considered) :
                 /\ st.considered[k].filled = 0
                 /\ st.filled[k].filled = 1
                 /\ Match(st.filled[k]) = Match(st.considered[k])
           /\ Range(st.unique) \cup Range(st.selInput) \cup Range(st.batch) \subseteq Range(st.filled)

\* A final cycle that considered a new arrival of one partition together
\* with a relaxed candidate of another, buffered on an earlier cycle, and
\* forwarded both.
C15_Witness ==
  /\ Updated
  /\ last.arg
  /\ last.pre.m_results # <<>>
  /\ last.pre.m_relaxedResults # <<>>
  /\ \E r \in Range(last.stages.batch) : r.isRelaxed /\ r.filled = 1
  /\ \E r, q \in Range(last.stages.batch) : r.id[1] # q.id[1]

(***************************************************************************)
(* C16: in a viewport query every candidate of the forwarded batch has a   *)
(* loaded center inside the viewport and matchedTokens + 1 >=              *)
(* numQueryTokens; a candidate whose center was not loaded is not          *)
(* forwarded.                                                              *)
(***************************************************************************)
C16_BatchInsideViewport ==
  Updated /\ last.pre.m_params.m_viewportSearch =>
    /\ \A r \in Range(last.stages.batch) :
         /\ r.centerLoaded
         /\ IsPointInside(last.pre.m_params.m_viewport, r.center)
         /\ r.matchedTokens + 1 >= last.pre.m_params.m_numQueryTokens
    /\ \A c \in Range(last.stages.filled) :
         ~c.centerLoaded => \A r \in Range(last.stages.batch) : r.id # c.id

\* A viewport query that considered a candidate without a center, one
\* outside the viewport and one matching too few tokens, and forwarded
\* another.
C16_Witness ==
  /\ Updated
  /\ last.pre.m_params.m_viewportSearch
  /\ last.stages.batch # <<>>
  /\ \E c \in Range(last.stages.unique) : ~c.centerLoaded
  /\ \E c \in Range(last.stages.unique) :
       c.centerLoaded /\ ~IsPointInside(last.pre.m_params.m_viewport, c.center)
  /\ \E c \in Range(last.stages.unique) :
       /\ c.centerLoaded
       /\ IsPointInside(last.pre.m_params.m_viewport, c.center)
       /\ c.matchedTokens + 1 < last.pre.m_params.m_numQueryTokens

(***************************************************************************)
(* C17: for every candidate given to the sweeper, with rank and popularity *)
(* anywhere in 0..255, the priority is max(rank, popularity, 3 if the id   *)
(* is in the previous-emission set else 0, 1 if exact match else 0) + 2,   *)
(* so a candidate with a larger maximum never has a smaller priority.      *)
(***************************************************************************)
MaxOf(r) ==
  Max(Max(r.rank, r.popularity),
      Max(IF r.id \in last.pre.m_prevEmit THEN 3 ELSE 0, IF r.exactMatch THEN 1 ELSE 0))

C17_PriorityIsMaxPlusTwo ==
  Updated /\ last.pre.m_params.m_viewportSearch =>
    /\ \A r \in Range(SweepInput) : PriorityOf(r) = MaxOf(r) + 2
    /\ \A x, y \in Range(SweepInput) : MaxOf(x) > MaxOf(y) => PriorityOf(x) >= PriorityOf(y)

(***************************************************************************)
(* C18: in a viewport query, at the end of each UpdateResults call before  *)
(* the rotation of the final cycle, the current-emission set is the set of *)
(* the FeatureIds forwarded to the Ranker since the last Init: it holds    *)
(* every forwarded id and no id that was not forwarded.                    *)
(***************************************************************************)
C18_CurrEmitIsForwarded ==
  Updated /\ last.pre.m_params.m_viewportSearch =>
    last.stages.currEmit = last.sent.ids

(***************************************************************************)
(* C19: the previous-emission set is changed only by ClearCaches and by an *)
(* UpdateResults(lastUpdate = true) whose current-emission set is          *)
(* non-empty; Init, Finish, the producers, every UpdateResults(lastUpdate  *)
(* = false) and every cycle of a non-viewport query leave it unchanged.    *)
(***************************************************************************)
C19_PrevEmitWriters ==
  /\ m_prevEmit # last.pre.m_prevEmit =>
       \/ last.op = "ClearCaches"
       \/ Updated /\ last.arg /\ last.stages.currEmit # {}
  /\ last.op \in {"Init", "Finish", "Emplace"} => m_prevEmit = last.pre.m_prevEmit
  /\ Updated /\ ~last.arg => m_prevEmit = last.pre.m_prevEmit
  /\ Updated /\ ~last.pre.m_params.m_viewportSearch => m_prevEmit = last.pre.m_prevEmit

\* The final cycle of a non-viewport query forwarded a batch and left the
\* emission of an earlier viewport query in the previous-emission set.
C19_Witness ==
  /\ Updated
  /\ last.arg
  /\ ~last.pre.m_params.m_viewportSearch
  /\ last.stages.batch # <<>>
  /\ m_prevEmit # {}
  /\ m_prevEmit = last.pre.m_prevEmit

(***************************************************************************)
(* C20: between two Init calls each candidate appended to the collection   *)
(* is forwarded in at most one batch, and the sent-result counter is the   *)
(* sum of the sizes of the batches forwarded since the last Init. Each     *)
(* UpdateResults takes the candidates it considers out of the collection   *)
(* and the buffer (none stays behind, none is copied), and its batch holds *)
(* each considered candidate at most once.                                 *)
(***************************************************************************)
CountMatch(m, seq) == Cardinality({k \in 1..Len(seq) : Match(seq[k]) = m})

C20_ForwardedOnceAndCounted ==
  /\ m_numSentResults = last.sent.size
  /\ Updated =>
       /\ m_results = <<>>
       /\ Len(last.stages.considered) + Len(m_relaxedResults)
            = Len(last.pre.m_results) + Len(last.pre.m_relaxedResults)
       /\ \A c \in Range(last.pre.m_results) \cup Range(last.pre.m_relaxedResults) :
            Count(c, last.stages.considered) + Count(c, m_relaxedResults)
              = Count(c, last.pre.m_results) + Count(c, last.pre.m_relaxedResults)
       /\ \A b \in Range(last.stages.batch) :
            CountMatch(Match(b), last.stages.batch) <= CountMatch(Match(b), last.stages.considered)

\* The second non-empty batch of a query: a candidate had been sent, another
\* one was buffered as relaxed, and the final cycle forwarded it.
C20_Witness ==
  /\ Updated
  /\ last.pre.m_numSentResults = 1
  /\ last.pre.m_relaxedResults # <<>>
  /\ Len(last.stages.batch) = 1
  /\ m_numSentResults = 2

====
